---------------------------- MODULE Spec2Model ----------------------------
(***************************************************************************)
(* A model of computer_use_demo/tools/computer.py: the ComputerTool action *)
(* dispatcher (__call__), the command executor (shell), the screenshot     *)
(* capturer (screenshot) and the coordinate scaler (scale_coordinates).    *)
(*                                                                         *)
(* Python strings are tuples of one-character strings, so that split,      *)
(* lower, join, int() and str() are computed character by character.       *)
(***************************************************************************)
EXTENDS Integers, Sequences, FiniteSets, TLC

VARIABLES
    width,      \* ComputerTool.width  (int(os.getenv("WIDTH")))
    height,     \* ComputerTool.height (int(os.getenv("HEIGHT")))
    pc,         \* the await point the tool call is suspended at
    req,        \* the keyword arguments of the call in flight
    stack,      \* the coroutine frames that are active, outermost first
    cmd,        \* the command line the pending shell() call will run
    todo,       \* type: the chunks not sent yet
    results,    \* type: the ToolResults of the chunks sent so far
    shellRes,   \* shell(): stdout and stderr of the action's command
    capRes,     \* screenshot(): the ToolResult of the capture command
    shots,      \* number of screenshot() calls made by this tool call
    events,     \* what the tool call has done so far, in order
    result,     \* what the tool call returned or raised
    probe       \* a direct call of scale_coordinates and its outcome

vars == <<width, height, pc, req, stack, cmd, todo, results, shellRes, capRes,
          shots, events, result, probe>>

callVars == <<pc, req, stack, cmd, todo, results, shellRes, capRes, shots,
              events, result>>

---------------------------------------------------------------------------
(* Program constants.                                                      *)

TYPING_DELAY_MS == 12

TYPING_GROUP_SIZE == 50

RETINA_SCALED_WIDTH == 1728

RETINA_SCALED_HEIGHT == 1117

ScalingEnabled == TRUE

Actions ==
    {"key", "type", "mouse_move", "left_click", "left_click_drag",
     "right_click", "middle_click", "double_click", "screenshot",
     "cursor_position"}

---------------------------------------------------------------------------
(* Bounds of the model.                                                    *)

\* Widths and heights are taken this far around each size of interest.
DimSpread == 1

\* A key text is at most this many '+'-separated tokens.
MaxKeyTokens == 3

\* A typed text is at most this many full chunks, plus or minus one character.
MaxTypeChunks == 2

---------------------------------------------------------------------------
(* Python strings.                                                         *)

UpperCase == <<"A","B","C","D","E","F","G","H","I","J","K","L","M","N","O","P","Q","R","S","T","U","V","W","X","Y","Z">>

LowerCase == <<"a","b","c","d","e","f","g","h","i","j","k","l","m","n","o","p","q","r","s","t","u","v","w","x","y","z">>

Digits == <<"0","1","2","3","4","5","6","7","8","9">>

Whitespace == {" ", "\n", "\t"}

Range(s) == {s[i] : i \in 1..Len(s)}

\* str.lower() on one character
LowerChar(c) ==
    IF \E i \in 1..Len(UpperCase) : UpperCase[i] = c
    THEN LowerCase[CHOOSE i \in 1..Len(UpperCase) : UpperCase[i] = c]
    ELSE c

\* str.lower()
StrLower(s) == [i \in 1..Len(s) |-> LowerChar(s[i])]

\* s.startswith(sep) at position i (1-based)
MatchAt(s, sep, i) ==
    /\ i + Len(sep) - 1 <= Len(s)
    /\ \A j \in 1..Len(sep) : s[i + j - 1] = sep[j]

\* s.split(sep), for a non-empty separator: the pieces between the
\* leftmost non-overlapping occurrences of sep; "" splits into [""].
RECURSIVE SplitFrom(_, _, _, _)
SplitFrom(s, sep, i, cur) ==
    IF i > Len(s) THEN <<cur>>
    ELSE IF MatchAt(s, sep, i)
         THEN <<cur>> \o SplitFrom(s, sep, i + Len(sep), <<>>)
         ELSE SplitFrom(s, sep, i + 1, Append(cur, s[i]))

StrSplit(s, sep) == SplitFrom(s, sep, 1, <<>>)

\* sep.join(parts)
RECURSIVE StrJoin(_, _)
StrJoin(sep, parts) ==
    IF Len(parts) = 0 THEN <<>>
    ELSE IF Len(parts) = 1 THEN parts[1]
    ELSE parts[1] \o sep \o StrJoin(sep, Tail(parts))

\* reversed(list)
Reversed(l) == [i \in 1..Len(l) |-> l[Len(l) + 1 - i]]

\* str(n) for an int
RECURSIVE NatToStr(_)
NatToStr(n) ==
    IF n < 10 THEN <<Digits[n + 1]>>
    ELSE NatToStr(n \div 10) \o <<Digits[(n % 10) + 1]>>

IntToStr(n) == IF n < 0 THEN <<"-">> \o NatToStr(-n) ELSE NatToStr(n)

DigitValue(c) == (CHOOSE i \in 1..10 : Digits[i] = c) - 1

\* str.strip()
RECURSIVE LStrip(_)
LStrip(s) ==
    IF Len(s) > 0 /\ s[1] \in Whitespace THEN LStrip(Tail(s)) ELSE s

RECURSIVE RStrip(_)
RStrip(s) ==
    IF Len(s) > 0 /\ s[Len(s)] \in Whitespace
    THEN RStrip(SubSeq(s, 1, Len(s) - 1)) ELSE s

StrStrip(s) == LStrip(RStrip(s))

\* int(s) accepts: optional whitespace, an optional sign, decimal digits
\* with single underscores between them, optional whitespace.
IntBody(s) ==
    LET t == StrStrip(s)
    IN  IF Len(t) > 0 /\ t[1] \in {"+", "-"} THEN Tail(t) ELSE t

IntNegative(s) ==
    LET t == StrStrip(s) IN Len(t) > 0 /\ t[1] = "-"

IntParses(s) ==
    LET b == IntBody(s)
    IN  /\ Len(b) > 0
        /\ \A i \in 1..Len(b) : b[i] \in Range(Digits) \cup {"_"}
        /\ b[1] # "_" /\ b[Len(b)] # "_"
        /\ \A i \in 1..(Len(b) - 1) : ~(b[i] = "_" /\ b[i + 1] = "_")

RECURSIVE DigitsValue(_, _)
DigitsValue(b, acc) ==
    IF Len(b) = 0 THEN acc
    ELSE IF b[1] = "_" THEN DigitsValue(Tail(b), acc)
    ELSE DigitsValue(Tail(b), 10 * acc + DigitValue(b[1]))

\* int(s), where IntParses(s)
IntValue(s) ==
    LET v == DigitsValue(IntBody(s), 0)
    IN  IF IntNegative(s) THEN -v ELSE v

---------------------------------------------------------------------------
(* The coordinate scaler.                                                  *)

\* round(num / den) for den > 0.  Python rounds a float to the nearest
\* integer, and an exact half to the even neighbour; the quotient is a
\* product or quotient of rounded doubles, so a value that is mathematically
\* an exact half may reach round() a last-place unit below or above it.
\* Both neighbours are outcomes there.
RoundOutcomes(num, den) ==
    LET fl == num \div den
        twice == 2 * (num - fl * den)
    IN  IF twice < den THEN {fl}
        ELSE IF twice > den THEN {fl + 1}
        ELSE {fl, fl + 1}

\* round(x * x_scale * 2), x_scale = (dim // 2) / target
ScaleAxisApi(v, dim, target) == RoundOutcomes(2 * v * (dim \div 2), target)

\* round((x / 2) / x_scale), where x_scale # 0
ScaleAxisComputer(v, dim, target) ==
    RoundOutcomes(v * target, 2 * (dim \div 2))

Scaled(x, y) == [ok |-> TRUE, x |-> x, y |-> y]

\* float division by zero
ZeroDivisionError == [ok |-> FALSE, x |-> 0, y |-> 0]

\* ComputerTool.scale_coordinates(source, x, y): the outcomes of the call
\* on a tool configured with w and h.
ScaleCoordinatesOn(w, h, source, x, y) ==
    IF ~ScalingEnabled THEN {Scaled(x, y)}
    ELSE IF source = "api"
    THEN {Scaled(sx, sy) :
            sx \in ScaleAxisApi(x, w, RETINA_SCALED_WIDTH),
            sy \in ScaleAxisApi(y, h, RETINA_SCALED_HEIGHT)}
    ELSE IF w \div 2 = 0 \/ h \div 2 = 0 THEN {ZeroDivisionError}
    ELSE {Scaled(sx, sy) :
            sx \in ScaleAxisComputer(x, w, RETINA_SCALED_WIDTH),
            sy \in ScaleAxisComputer(y, h, RETINA_SCALED_HEIGHT)}

ScaleCoordinates(source, x, y) == ScaleCoordinatesOn(width, height, source, x, y)

---------------------------------------------------------------------------
(* Values of the call's keyword arguments, ToolResult and ToolError.       *)

NoneV == [t |-> "none", s |-> <<>>]

StrV(s) == [t |-> "str", s |-> s]

\* a text argument that is not a str
IntTextV == [t |-> "int", s |-> <<>>]

\* Elements of a coordinate list.  n is the element's numeric value where it
\* has one (True is 1: bool is a subclass of int).
IntE(n) == [t |-> "int", n |-> n]

BoolE == [t |-> "bool", n |-> 1]

FloatE == [t |-> "float", n |-> 1]

StrE == [t |-> "str", n |-> 0]

NoCoord == [t |-> "none", l |-> <<>>]

ListC(l) == [t |-> "list", l |-> l]

\* a coordinate argument that is not a list (a str of length 2)
StrC == [t |-> "str", l |-> <<>>]

\* isinstance(i, int) and i >= 0
IsNonNegativeInt(e) == e.t \in {"int", "bool"} /\ e.n >= 0

\* subprocess outcome of run(command): (stdout, stderr)
Ran(out, err) == [out |-> out, err |-> err]

\* ToolResult(output, error, base64_image); image 0 is None, image n is the
\* file written by the n-th screenshot() of the call.
Returned(output, error, image) ==
    [status |-> "return", exc |-> "", kind |-> "", msg |-> "",
     output |-> output, error |-> error, image |-> image]

\* raise ToolError(message); kind names the error kind of the message
Raised(kind, msg) ==
    [status |-> "raise", exc |-> "ToolError", kind |-> kind, msg |-> msg,
     output |-> <<>>, error |-> <<>>, image |-> 0]

\* an exception that is not a ToolError
RaisedOther(exc) ==
    [status |-> "raise", exc |-> exc, kind |-> exc, msg |-> "",
     output |-> <<>>, error |-> <<>>, image |-> 0]

NoResult ==
    [status |-> "none", exc |-> "", kind |-> "", msg |-> "",
     output |-> <<>>, error |-> <<>>, image |-> 0]

\* one thing the call did: ran a subprocess, or slept for the settle delay
RunEvent(line, r) == [e |-> "run", line |-> line, out |-> r.out, err |-> r.err]

SleepEvent == [e |-> "sleep", line |-> <<>>, out |-> <<>>, err |-> <<>>]

NoCmd == [line |-> <<>>, take_screenshot |-> FALSE]

ShellCmd(line, shot) == [line |-> line, take_screenshot |-> shot]

---------------------------------------------------------------------------
(* The key branch.                                                         *)

Modifiers == {<<"a","l","t">>, <<"c","m","d">>, <<"c","t","r","l">>, <<"f","n">>, <<"s","h","i","f","t">>}

KeyMappingNames ==
    <<<<"s","u","p","e","r">>, <<"R","e","t","u","r","n">>, <<"s","p","a","c","e">>, <<"T","a","b">>, <<"L","e","f","t">>, <<"R","i","g","h","t">>, <<"U","p">>,
      <<"D","o","w","n">>, <<"E","s","c","a","p","e">>, <<"B","a","c","k","S","p","a","c","e">>, <<"D","e","l","e","t","e">>, <<"H","o","m","e">>, <<"E","n","d">>,
      <<"P","a","g","e","_","U","p">>, <<"P","a","g","e","_","D","o","w","n">>,
      <<"F","1">>, <<"F","2">>, <<"F","3">>, <<"F","4">>, <<"F","5">>, <<"F","6">>,
      <<"F","7">>, <<"F","8">>, <<"F","9">>, <<"F","1","0">>, <<"F","1","1">>, <<"F","1","2">>>>

KeyMappingValues ==
    <<<<"c","m","d">>, <<"r","e","t","u","r","n">>, <<"s","p","a","c","e">>, <<"t","a","b">>, <<"a","r","r","o","w","-","l","e","f","t">>, <<"a","r","r","o","w","-","r","i","g","h","t">>,
      <<"a","r","r","o","w","-","u","p">>, <<"a","r","r","o","w","-","d","o","w","n">>, <<"e","s","c">>, <<"d","e","l","e","t","e">>, <<"f","w","d","-","d","e","l","e","t","e">>, <<"h","o","m","e">>,
      <<"e","n","d">>, <<"p","a","g","e","-","u","p">>, <<"p","a","g","e","-","d","o","w","n">>,
      <<"f","1">>, <<"f","2">>, <<"f","3">>, <<"f","4">>, <<"f","5">>, <<"f","6">>,
      <<"f","7">>, <<"f","8">>, <<"f","9">>, <<"f","1","0">>, <<"f","1","1">>, <<"f","1","2">>>>

\* key_mapping.get(key, key)
KeyMappingGet(key) ==
    IF \E i \in 1..Len(KeyMappingNames) : KeyMappingNames[i] = key
    THEN KeyMappingValues[CHOOSE i \in 1..Len(KeyMappingNames) :
                              KeyMappingNames[i] = key]
    ELSE key

\* the name one token of the text is looked up under: key = key.lower()
KeyOfToken(token) == StrLower(token)

NoKeys == [modifiers |-> <<>>, regular_key |-> <<>>, has_key |-> FALSE,
           error |-> FALSE]

\* One pass of "for key in keys": st is (modifiers, regular_key) so far;
\* has_key is "regular_key is not None".
KeyLoopStep(st, token) ==
    LET key == KeyOfToken(token)
    IN  IF st.error THEN st
        ELSE IF key \in Modifiers
        THEN [st EXCEPT !.modifiers = Append(@, KeyMappingGet(key))]
        ELSE IF st.has_key /\ st.regular_key # <<>>      \* if regular_key:
        THEN [st EXCEPT !.error = TRUE]
        ELSE [st EXCEPT !.regular_key = KeyMappingGet(key), !.has_key = TRUE]

RECURSIVE KeyLoop(_, _)
KeyLoop(st, keys) ==
    IF Len(keys) = 0 THEN st
    ELSE KeyLoop(KeyLoopStep(st, keys[1]), Tail(keys))

\* keys = text.split("+") and the loop over it
ParseKeys(text) == KeyLoop(NoKeys, StrSplit(text, <<"+">>))

\* cmd_parts as they would be with the modifiers released in the order they
\* were pressed
KeyCommandSameOrder(k) ==
    LET down == IF Len(k.modifiers) > 0
                THEN <<<<"k","d",":">> \o StrJoin(<<",">>, k.modifiers)>> ELSE <<>>
        press == IF k.has_key /\ k.regular_key # <<>>
                 THEN <<<<"k","p",":">> \o k.regular_key>> ELSE <<>>
        up == IF Len(k.modifiers) > 0
              THEN <<<<"k","u",":">> \o StrJoin(<<",">>, k.modifiers)>> ELSE <<>>
    IN  <<"c","l","i","c","l","i","c","k"," ">> \o StrJoin(<<" ">>, down \o press \o up)

\* cmd_parts and the command line built from them
KeyCommand(k) ==
    LET down == IF Len(k.modifiers) > 0
                THEN <<<<"k","d",":">> \o StrJoin(<<",">>, k.modifiers)>> ELSE <<>>
        press == IF k.has_key /\ k.regular_key # <<>>
                 THEN <<<<"k","p",":">> \o k.regular_key>> ELSE <<>>
        up == IF Len(k.modifiers) > 0
              THEN <<<<"k","u",":">> \o StrJoin(<<",">>, Reversed(k.modifiers))>> ELSE <<>>
    IN  <<"c","l","i","c","l","i","c","k"," ">> \o StrJoin(<<" ">>, down \o press \o up)

---------------------------------------------------------------------------
(* The type branch.                                                        *)

\* chunks as they would be if only full groups were cut, the remainder lost
RECURSIVE ChunksFullOnly(_, _)
ChunksFullOnly(s, chunk_size) ==
    IF Len(s) < chunk_size THEN <<>>
    ELSE <<SubSeq(s, 1, chunk_size)>>
         \o ChunksFullOnly(SubSeq(s, chunk_size + 1, Len(s)), chunk_size)

\* chunks(s, chunk_size)
RECURSIVE Chunks(_, _)
Chunks(s, chunk_size) ==
    IF Len(s) = 0 THEN <<>>
    ELSE IF Len(s) <= chunk_size THEN <<s>>
    ELSE <<SubSeq(s, 1, chunk_size)>>
         \o Chunks(SubSeq(s, chunk_size + 1, Len(s)), chunk_size)

\* the characters shlex.quote leaves unquoted: [a-zA-Z0-9_@%+=:,./-]
ShlexSafe == Range(UpperCase) \cup Range(LowerCase) \cup Range(Digits)
             \cup Range(<<"_","@","%","+","=",":",",",".","/","-">>)

RECURSIVE ReplaceQuotes(_)
ReplaceQuotes(s) ==
    IF Len(s) = 0 THEN <<>>
    ELSE (IF s[1] = "'" THEN <<"'","\"","'","\"","'">> ELSE <<s[1]>>) \o ReplaceQuotes(Tail(s))

\* shlex.quote(s)
ShlexQuote(s) ==
    IF Len(s) = 0 THEN <<"'","'">>
    ELSE IF \A i \in 1..Len(s) : s[i] \in ShlexSafe THEN s
    ELSE <<"'">> \o ReplaceQuotes(s) \o <<"'">>

\* cmd = f"cliclick w:{TYPING_DELAY_MS} t:{shlex.quote(chunk)}"
TypeCommand(chunk) ==
    <<"c","l","i","c","l","i","c","k"," ","w",":">> \o IntToStr(TYPING_DELAY_MS) \o <<" ","t",":">> \o ShlexQuote(chunk)

\* "".join(result.output or "" for result in results)
RECURSIVE ConcatOutputs(_)
ConcatOutputs(rs) ==
    IF Len(rs) = 0 THEN <<>> ELSE rs[1].out \o ConcatOutputs(Tail(rs))

RECURSIVE ConcatErrors(_)
ConcatErrors(rs) ==
    IF Len(rs) = 0 THEN <<>> ELSE rs[1].err \o ConcatErrors(Tail(rs))

---------------------------------------------------------------------------
(* Mouse, click and cursor commands.                                       *)

\* f"cliclick m:{x},{y}" and f"cliclick dd:{x},{y}"
MoveCommand(action, x, y) ==
    <<"c","l","i","c","l","i","c","k"," ">> \o (IF action = "mouse_move" THEN <<"m",":">> ELSE <<"d","d",":">>)
    \o IntToStr(x) \o <<",">> \o IntToStr(y)

\* click_mapping[action]; <<>> stands for None
ClickMapping(action) ==
    CASE action = "left_click" -> <<"c",":",".">>
      [] action = "right_click" -> <<"r","c",":",".">>
      [] action = "middle_click" -> <<>>
      [] action = "double_click" -> <<"d","c",":",".">>

ClickCommand(action) == <<"c","l","i","c","l","i","c","k"," ">> \o ClickMapping(action)

CursorCommand == <<"c","l","i","c","l","i","c","k"," ","p">>

\* path = output_dir / f"screenshot_{uuid4().hex}.png"; the n-th screenshot
\* of a call gets a name of its own
ScreenshotPath(n) == <<"/","t","m","p","/","o","u","t","p","u","t","s","/","s","c","r","e","e","n","s","h","o","t","_">> \o IntToStr(n) \o <<".","p","n","g">>

ScreenshotCommand(n) == <<"s","c","r","e","e","n","c","a","p","t","u","r","e"," ","-","x"," ">> \o ScreenshotPath(n)

ResizeCommand(n) ==
    <<"c","o","n","v","e","r","t"," ">> \o ScreenshotPath(n) \o <<" ","-","r","e","s","i","z","e"," ">>
    \o IntToStr(RETINA_SCALED_WIDTH) \o <<"x">> \o IntToStr(RETINA_SCALED_HEIGHT)
    \o <<"!"," ">> \o ScreenshotPath(n)

\* The cursor_position branch after "cliclick p" printed output: the
\* outcomes of parsing and scaling it.
CursorOutcomes(r) ==
    LET output == r.out
        halves == StrSplit(output, <<":"," ">>)
    IN  IF Len(halves) < 2 THEN {Raised("ParseError", "IndexError")}
        ELSE LET coords == StrSplit(halves[2], <<","," ">>)
             IN  IF ~IntParses(coords[1])
                 THEN {Raised("ParseError", "ValueError")}
                 ELSE IF Len(coords) < 2
                 THEN {Raised("ParseError", "IndexError")}
                 ELSE IF ~IntParses(coords[2])
                 THEN {Raised("ParseError", "ValueError")}
                 ELSE {IF s.ok
                       THEN Returned(<<"X","=">> \o IntToStr(s.x) \o <<",","Y","=">>
                                     \o IntToStr(s.y), r.err, 0)
                       ELSE RaisedOther("ZeroDivisionError") :
                       s \in ScaleCoordinates("computer",
                                 IntValue(coords[1]), IntValue(coords[2]))}

---------------------------------------------------------------------------
(* ComputerTool.__call__ up to its first await.                            *)

Step(step, line) == [step |-> step, kind |-> "", msg |-> "", line |-> line]

Reject(kind, msg) == [step |-> "raise", kind |-> kind, msg |-> msg, line |-> <<>>]

\* an exception that is not a ToolError leaves __call__
Fail(exc) == [step |-> "fail", kind |-> exc, msg |-> "", line |-> <<>>]

\* the move branch as it would be without the test of the two elements
MoveBranchUnchecked(r) ==
    IF r.coordinate.t = "none"
    THEN {Reject("InvalidArgument", "coordinate is required")}
    ELSE IF r.text.t # "none"
    THEN {Reject("InvalidArgument", "text is not accepted")}
    ELSE IF r.coordinate.t # "list" \/ Len(r.coordinate.l) # 2
    THEN {Reject("InvalidArgument", "must be a tuple of length 2")}
    ELSE {Step("shell", MoveCommand(r.action, s.x, s.y)) :
            s \in ScaleCoordinates("api", r.coordinate.l[1].n,
                                   r.coordinate.l[2].n)}

\* if action in ("mouse_move", "left_click_drag"):
MoveBranch(r) ==
    IF r.coordinate.t = "none"
    THEN {Reject("InvalidArgument", "coordinate is required")}
    ELSE IF r.text.t # "none"
    THEN {Reject("InvalidArgument", "text is not accepted")}
    ELSE IF r.coordinate.t # "list" \/ Len(r.coordinate.l) # 2
    THEN {Reject("InvalidArgument", "must be a tuple of length 2")}
    ELSE IF ~\A i \in 1..2 : IsNonNegativeInt(r.coordinate.l[i])
    THEN {Reject("InvalidArgument", "must be a tuple of non-negative ints")}
    ELSE {Step("shell", MoveCommand(r.action, s.x, s.y)) :
            s \in ScaleCoordinates("api", r.coordinate.l[1].n,
                                   r.coordinate.l[2].n)}

\* if action == "key":
KeyBranch(r) ==
    LET k == ParseKeys(r.text.s)
    IN  IF k.error
        THEN {Reject("InvalidArgument", "Only one non-modifier key allowed")}
        ELSE {Step("shell", KeyCommand(k))}

\* if action in ("key", "type"):
TextBranch(r) ==
    IF r.text.t = "none"
    THEN {Reject("InvalidArgument", "text is required")}
    ELSE IF r.coordinate.t # "none"
    THEN {Reject("InvalidArgument", "coordinate is not accepted")}
    ELSE IF r.text.t # "str"
    THEN \* ToolError(output=...): the constructor, defined in base.py, takes
         \* the keyword or fails with a TypeError
         {Reject("InvalidArgument", "must be a string"), Fail("TypeError")}
    ELSE IF r.action = "key" THEN KeyBranch(r)
    ELSE {Step("type", <<>>)}

\* if action in ("left_click", ..., "cursor_position"):
ClickBranch(r) ==
    IF r.text.t # "none"
    THEN {Reject("InvalidArgument", "text is not accepted")}
    ELSE IF r.coordinate.t # "none"
    THEN {Reject("InvalidArgument", "coordinate is not accepted")}
    ELSE IF r.action = "screenshot" THEN {Step("screenshot", <<>>)}
    ELSE IF r.action = "cursor_position" THEN {Step("cursor", CursorCommand)}
    ELSE IF ClickMapping(r.action) = <<>>
    THEN {Reject("UnsupportedAction", "not supported by cliclick on macOS")}
    ELSE {Step("shell", ClickCommand(r.action))}

\* The body of __call__ until it raises or awaits.
FirstSteps(r) ==
    IF r.action \in {"mouse_move", "left_click_drag"} THEN MoveBranch(r)
    ELSE IF r.action \in {"key", "type"} THEN TextBranch(r)
    ELSE IF r.action \in {"left_click", "right_click", "double_click",
                          "middle_click", "screenshot", "cursor_position"}
    THEN ClickBranch(r)
    ELSE {Reject("InvalidArgument", "Invalid action")}

---------------------------------------------------------------------------
(* What the environment may send and answer.                               *)

\* MAX_SCALING_TARGETS["XGA"] as a display size, a Retina display (twice
\* RETINA_SCALED) and the smallest display the constructor's assert admits.
Configs ==
    {<<2 * RETINA_SCALED_WIDTH, 2 * RETINA_SCALED_HEIGHT>>, <<1024, 768>>,
     <<1, 1>>}

KeyTokens ==
    {<<"c","t","r","l">>, <<"S","h","i","f","t">>, <<"a">>, <<>>, <<"E","s","c","a","p","e">>, <<"B","a","c","k","S","p","a","c","e">>, <<"F","1">>}

RECURSIVE TokenLists(_)
TokenLists(n) ==
    IF n = 0 THEN {<<>>}
    ELSE LET shorter == TokenLists(n - 1)
         IN  shorter \cup {Append(l, t) : l \in {s \in shorter : Len(s) = n - 1},
                                          t \in KeyTokens}

KeyTexts == {StrJoin(<<"+">>, l) : l \in TokenLists(MaxKeyTokens) \ {<<>>}}

\* a text of n characters; the pattern sets where its spaces and quotes are
TypeText(n, pattern) ==
    [i \in 1..n |->
        IF pattern = 1 THEN LowerCase[((i - 1) % 26) + 1]
        ELSE IF i % 7 = 0 THEN "'" ELSE IF i % 5 = 0 THEN " "
        ELSE LowerCase[((i - 1) % 26) + 1]]

TypeLengths ==
    {n \in 0..(MaxTypeChunks * TYPING_GROUP_SIZE + 1) :
        \E k \in 0..MaxTypeChunks :
            n \in {k * TYPING_GROUP_SIZE - 1, k * TYPING_GROUP_SIZE,
                   k * TYPING_GROUP_SIZE + 1}}

TypeTexts == {TypeText(n, p) : n \in TypeLengths, p \in 1..2}

SmallTexts == {NoneV, StrV(<<"a">>), StrV(<<>>), IntTextV}

CoordElems == {IntE(-1), IntE(0), IntE(100), IntE(4000), BoolE, FloatE, StrE}

Coords ==
    {NoCoord, StrC, ListC(<<>>)}
    \cup {ListC(<<a>>) : a \in CoordElems}
    \cup {ListC(<<a, b>>) : a \in CoordElems, b \in CoordElems}
    \cup {ListC(<<a, b, c>>) : a \in {IntE(0)}, b \in {IntE(0), IntE(100)},
                               c \in {IntE(0), FloatE}}

SmallCoords == {NoCoord, ListC(<<IntE(100), IntE(0)>>)}

ActionNames == Actions \cup {"scroll"}

TextsFor(action) ==
    IF action = "key" THEN {StrV(s) : s \in KeyTexts}
    ELSE IF action = "type" THEN {StrV(s) : s \in TypeTexts}
    ELSE {}

Requests ==
    {[action |-> a, text |-> t, coordinate |-> c] :
        a \in ActionNames, t \in SmallTexts, c \in Coords}
    \cup UNION {{[action |-> a, text |-> t, coordinate |-> c] :
                    t \in TextsFor(a), c \in SmallCoords} : a \in {"key", "type"}}

\* (stdout, stderr) of a subprocess
RunResults == {Ran(<<>>, <<>>), Ran(<<"x">>, <<>>), Ran(<<"y">>, <<"e">>)}

\* what "cliclick p" may print
Reports ==
    {<<"P","o","i","n","t",":"," ","1","0","0",","," ","2","0","0">>, <<"P","o","i","n","t",":"," ","3","4","5","6",","," ","2","2","3","4">>, <<"P","o","i","n","t",":"," ","7",","," ","9","\n">>,
     <<"P","o","i","n","t",":"," ","-","4",","," ","1","_","0">>, <<"1","0","0",",","2","0","0">>, <<>>, <<"P","o","i","n","t",":"," ","1","0","0">>, <<"P","o","i","n","t",":"," ","a",","," ","2">>,
     <<"P","o","i","n","t",":"," ","1",","," ","2",".","5">>, <<"P","o","i","n","t",":"," ","5",","," ","6",","," ","7">>, <<"A",":"," ","B",":"," ","1",","," ","2">>}

RunResultsFor(line) ==
    IF line = CursorCommand THEN {Ran(o, <<>>) : o \in Reports} ELSE RunResults

---------------------------------------------------------------------------
(* The tool call as a state machine: one action per await.                 *)

NoRequest == [action |-> "", text |-> NoneV, coordinate |-> NoCoord]

Idle ==
    /\ pc = "idle"
    /\ req = NoRequest
    /\ stack = <<>>
    /\ cmd = NoCmd
    /\ todo = <<>>
    /\ results = <<>>
    /\ shellRes = Ran(<<>>, <<>>)
    /\ capRes = Ran(<<>>, <<>>)
    /\ shots = 0
    /\ events = <<>>
    /\ result = NoResult

NoProbe == [op |-> "none", x |-> 0, y |-> 0, out |-> Scaled(0, 0)]

Init ==
    /\ \E cfg \in Configs : width = cfg[1] /\ height = cfg[2]
    /\ Idle
    /\ probe = NoProbe

\* await self.screenshot(), up to its first await: the capture command is
\* handed to shell(screenshot_cmd, take_screenshot=False)
EnterScreenshot(frames) ==
    /\ pc' = "capture"
    /\ shots' = shots + 1
    /\ stack' = frames \o <<"screenshot", "shell">>
    /\ cmd' = ShellCmd(ScreenshotCommand(shots + 1), FALSE)

\* the call returns or raises
Finish(res) ==
    /\ pc' = "done"
    /\ result' = res
    /\ stack' = <<>>
    /\ cmd' = NoCmd

\* ComputerTool.__call__(action=..., text=..., coordinate=...)
Call ==
    /\ pc = "idle"
    /\ \E r \in Requests : \E s \in FirstSteps(r) :
        /\ req' = r
        /\ CASE s.step = "raise" ->
                  /\ Finish(Raised(s.kind, s.msg))
                  /\ UNCHANGED <<todo, results, shots>>
             [] s.step = "fail" ->
                  /\ Finish(RaisedOther(s.kind))
                  /\ UNCHANGED <<todo, results, shots>>
             [] s.step \in {"shell", "cursor"} ->
                  /\ pc' = "shell"
                  /\ stack' = <<"__call__", "shell">>
                  /\ cmd' = ShellCmd(s.line, s.step = "shell")
                  /\ UNCHANGED <<todo, results, shots, result>>
             [] s.step = "type" ->
                  LET chunks == Chunks(r.text.s, TYPING_GROUP_SIZE)
                  IN  /\ results' = <<>>
                      /\ IF Len(chunks) = 0
                         THEN /\ EnterScreenshot(<<"__call__">>)
                              /\ todo' = <<>>
                         ELSE /\ pc' = "shell"
                              /\ stack' = <<"__call__", "shell">>
                              /\ cmd' = ShellCmd(TypeCommand(chunks[1]), FALSE)
                              /\ todo' = Tail(chunks)
                              /\ UNCHANGED shots
                      /\ UNCHANGED result
             [] s.step = "screenshot" ->
                  /\ EnterScreenshot(<<"__call__">>)
                  /\ UNCHANGED <<todo, results, result>>
    /\ UNCHANGED <<width, height, shellRes, capRes, events, probe>>

\* shell(): "_, stdout, stderr = await run(command)" completes, for the
\* command of the action itself (not the commands of screenshot())
ShellRun ==
    /\ pc = "shell"
    /\ \E r \in RunResultsFor(cmd.line) :
        /\ events' = Append(events, RunEvent(cmd.line, r))
        /\ IF cmd.take_screenshot
           THEN \* await asyncio.sleep(self._screenshot_delay)
                /\ pc' = "sleep"
                /\ shellRes' = r
                /\ UNCHANGED <<stack, cmd, todo, results, shots, result>>
           ELSE IF req.action = "type"
           THEN \* results.append(...); the loop's next chunk, or the screenshot
                /\ results' = Append(results, r)
                /\ IF Len(todo) > 0
                   THEN /\ pc' = "shell"
                        /\ cmd' = ShellCmd(TypeCommand(todo[1]), FALSE)
                        /\ todo' = Tail(todo)
                        /\ UNCHANGED <<stack, shots>>
                   ELSE /\ EnterScreenshot(<<"__call__">>)
                        /\ UNCHANGED todo
                /\ UNCHANGED <<shellRes, result>>
           ELSE \* cursor_position: parse the report
                /\ \E res \in CursorOutcomes(r) : Finish(res)
                /\ UNCHANGED <<todo, results, shellRes, shots>>
    /\ UNCHANGED <<width, height, req, capRes, probe>>

\* the step after the command as it would be without the settle delay
SleepOmitted ==
    /\ pc = "sleep"
    /\ events' = events
    /\ EnterScreenshot(stack)
    /\ UNCHANGED <<width, height, req, todo, results, shellRes, capRes,
                   result, probe>>

\* shell(): the settle delay elapses, and shell() awaits self.screenshot()
Sleep ==
    /\ pc = "sleep"
    /\ events' = Append(events, SleepEvent)
    /\ EnterScreenshot(stack)
    /\ UNCHANGED <<width, height, req, todo, results, shellRes, capRes,
                   result, probe>>

\* screenshot(): after its last subprocess, "if path.exists()" and the
\* return to the caller of screenshot(), which returns in turn
LeaveScreenshot(exists) ==
    IF ~exists
    THEN Finish(Raised("CaptureError", "Failed to take screenshot"))
    ELSE IF req.action = "screenshot"
    THEN Finish(Returned(capRes'.out, capRes'.err, shots))
    ELSE IF req.action = "type"
    THEN Finish(Returned(ConcatOutputs(results), ConcatErrors(results), shots))
    ELSE Finish(Returned(shellRes.out, shellRes.err, shots))

\* screenshot(): the capture command completes
Capture ==
    /\ pc = "capture"
    /\ \E r \in RunResults :
        /\ capRes' = r
        /\ events' = Append(events, RunEvent(cmd.line, r))
    /\ IF ScalingEnabled
       THEN /\ pc' = "resize"
            /\ cmd' = ShellCmd(ResizeCommand(shots), FALSE)
            /\ UNCHANGED <<stack, result>>
       ELSE \E exists \in BOOLEAN : LeaveScreenshot(exists)
    /\ UNCHANGED <<width, height, req, todo, results, shellRes, shots, probe>>

\* screenshot(): the resize command completes; its result is dropped
Resize ==
    /\ pc = "resize"
    /\ events' = Append(events, RunEvent(cmd.line, Ran(<<>>, <<>>)))
    /\ capRes' = capRes
    /\ \E exists \in BOOLEAN : LeaveScreenshot(exists)
    /\ UNCHANGED <<width, height, req, todo, results, shellRes, shots, probe>>

\* the result goes back to the caller, which may call again
Return ==
    /\ pc = "done"
    /\ pc' = "idle"
    /\ req' = NoRequest
    /\ stack' = <<>>
    /\ cmd' = NoCmd
    /\ todo' = <<>>
    /\ results' = <<>>
    /\ shellRes' = Ran(<<>>, <<>>)
    /\ capRes' = Ran(<<>>, <<>>)
    /\ shots' = 0
    /\ events' = <<>>
    /\ result' = NoResult
    /\ UNCHANGED <<width, height, probe>>

Next == Call \/ ShellRun \/ Sleep \/ Capture \/ Resize \/ Return

Spec == Init /\ [][Next]_vars

---------------------------------------------------------------------------
(* scale_coordinates called directly, on tools of many sizes.              *)

\* the smallest sizes whose scale factor (physical / target) exceeds 1/3
ThirdWidth == RETINA_SCALED_WIDTH \div 3

ThirdHeight == RETINA_SCALED_HEIGHT \div 3

Around(n) == {d \in (n - DimSpread)..(n + DimSpread) : d >= 1}

ScaleWidths ==
    Around(1) \cup Around(ThirdWidth) \cup Around(2 * RETINA_SCALED_WIDTH)

ScaleHeights ==
    Around(1) \cup Around(ThirdHeight) \cup Around(2 * RETINA_SCALED_HEIGHT)

ProbeInput(w, h, x, y) ==
    /\ width = w
    /\ height = h
    /\ probe = [op |-> "input", x |-> x, y |-> y, out |-> Scaled(0, 0)]

\* One axis takes every size and every coordinate within it, the other a
\* few of them.
ScaleInit ==
    /\ Idle
    /\ \/ \E w \in {1, 2 * RETINA_SCALED_WIDTH}, h \in {1, 2 * RETINA_SCALED_HEIGHT} :
            ProbeInput(w, h, 0, 0)
       \/ \E w \in ScaleWidths :
            \E x \in 0..w, y \in {0, 2 * RETINA_SCALED_HEIGHT} :
                ProbeInput(w, 2 * RETINA_SCALED_HEIGHT, x, y)
       \/ \E h \in ScaleHeights :
            \E y \in 0..h, x \in {0, 2 * RETINA_SCALED_WIDTH} :
                ProbeInput(2 * RETINA_SCALED_WIDTH, h, x, y)

\* scale_coordinates(ScalingSource.API, x, y)
ProbeApi ==
    /\ probe.op = "input"
    /\ \E s \in ScaleCoordinates("api", probe.x, probe.y) :
        probe' = [probe EXCEPT !.op = "api", !.out = s]
    /\ UNCHANGED <<width, height, callVars>>

\* scale_coordinates(ScalingSource.COMPUTER, *previous result)
ProbeBack ==
    /\ probe.op = "api"
    /\ probe.out.ok
    /\ \E s \in ScaleCoordinates("computer", probe.out.x, probe.out.y) :
        probe' = [probe EXCEPT !.op = "roundtrip", !.out = s]
    /\ UNCHANGED <<width, height, callVars>>

\* scale_coordinates(ScalingSource.COMPUTER, x, y)
ProbeComputer ==
    /\ probe.op = "input"
    /\ \E s \in ScaleCoordinates("computer", probe.x, probe.y) :
        probe' = [probe EXCEPT !.op = "computer", !.out = s]
    /\ UNCHANGED <<width, height, callVars>>

\* ComputerTool.options: scale_coordinates(COMPUTER, self.width, self.height)
ProbeOptions ==
    /\ probe.op = "input"
    /\ \E s \in ScaleCoordinates("computer", width, height) :
        probe' = [probe EXCEPT !.op = "options", !.out = s]
    /\ UNCHANGED <<width, height, callVars>>

ScaleNext == ProbeApi \/ ProbeBack \/ ProbeComputer \/ ProbeOptions

ScaleSpec == ScaleInit /\ [][ScaleNext]_vars

---------------------------------------------------------------------------
(* Properties of the scaler, checked under ScaleSpec.                      *)

Abs(n) == IF n < 0 THEN -n ELSE n

\* C1: with scaling enabled, for every positive WIDTH and HEIGHT and every
\* pair (x, y) with 0 <= x <= WIDTH and 0 <= y <= HEIGHT, scaling to the
\* screen and back returns a pair within one pixel of (x, y) on each axis.
C1_RoundTripWithinOnePixel ==
    (probe.op = "roundtrip" /\ probe.x <= width /\ probe.y <= height)
        => /\ probe.out.ok
           /\ Abs(probe.out.x - probe.x) <= 1
           /\ Abs(probe.out.y - probe.y) <= 1

\* C9: for every positive WIDTH and HEIGHT, 1 included, scale_coordinates
\* returns a pair of integers in both directions and never raises, so the
\* options property and cursor_position do not fail inside the scaler.
C9_ScalerNeverRaises ==
    probe.op \in {"api", "roundtrip", "computer", "options"} => probe.out.ok

---------------------------------------------------------------------------
(* Properties of the dispatcher, checked under Spec.                       *)

StartsWith(s, prefix) == MatchAt(s, prefix, 1)

Rest(s, prefix) == SubSeq(s, Len(prefix) + 1, Len(s))

\* a call is in flight or over, and __call__ did not raise before its
\* first await
Accepted == pc # "idle" /\ ~(pc = "done" /\ events = <<>> /\ result.status = "raise")

RejectedWith(kind) ==
    /\ pc = "done"
    /\ result.status = "raise"
    /\ result.exc = "ToolError"
    /\ result.kind = kind
    /\ events = <<>>
    /\ shots = 0

\* a list of exactly two non-negative integers (of Python: True is the int 1)
IsCoordinatePair(c) ==
    /\ c.t = "list"
    /\ Len(c.l) = 2
    /\ \A i \in 1..2 : c.l[i].t \in {"int", "bool"} /\ c.l[i].n >= 0

\* C2: a mouse_move or left_click_drag whose coordinate exceeds the
\* configured bounds (x > WIDTH or y > HEIGHT) fails with OutOfBounds and
\* runs no backend command.
C2_OutOfBoundsRejected ==
    (/\ pc # "idle"
     /\ req.action \in {"mouse_move", "left_click_drag"}
     /\ req.text.t = "none"
     /\ IsCoordinatePair(req.coordinate)
     /\ (req.coordinate.l[1].n > width \/ req.coordinate.l[2].n > height))
        => RejectedWith("OutOfBounds")

ViolatesGrammar(r) ==
    \/ r.action \notin Actions
    \/ /\ r.action \in {"mouse_move", "left_click_drag"}
       /\ \/ r.coordinate.t = "none"
          \/ r.text.t # "none"
          \/ ~IsCoordinatePair(r.coordinate)
    \/ /\ r.action \in {"key", "type"}
       /\ (r.text.t = "none" \/ r.coordinate.t # "none")
    \/ /\ r.action \in {"left_click", "right_click", "double_click",
                        "middle_click", "screenshot", "cursor_position"}
       /\ (r.text.t # "none" \/ r.coordinate.t # "none")

\* C3: a request whose fields violate the grammar (mouse_move or
\* left_click_drag without a coordinate, with text, or with a coordinate
\* that is not a pair of non-negative integers; key or type without text or
\* with a coordinate; a click, screenshot or cursor_position with text or a
\* coordinate; an unknown action) fails with InvalidArgument before any
\* command or screenshot is executed.
C3_GrammarViolationsRejected ==
    (pc # "idle" /\ ViolatesGrammar(req)) => RejectedWith("InvalidArgument")

C3_Witness ==
    /\ pc = "done"
    /\ req.action = "left_click_drag"
    /\ req.coordinate.t = "list"
    /\ Len(req.coordinate.l) = 2
    /\ req.coordinate.l[2].t = "int"
    /\ req.coordinate.l[2].n < 0
    /\ RejectedWith("InvalidArgument")

IsModifierToken(t) == t \in Modifiers

IsKeyToken(t) == t \notin Modifiers /\ t # <<>>

IsNonModifierToken(t) == t \notin Modifiers

\* the '+'-separated tokens of a key text, as written
TokensOf(text) == StrSplit(text, <<"+">>)

LoweredTokensOf(text) ==
    LET tokens == TokensOf(text) IN [i \in 1..Len(tokens) |-> StrLower(tokens[i])]

\* kd:m1,..,mk kp:key ku:mk,..,m1
HoldPressRelease(mods, key) ==
    <<"c","l","i","c","l","i","c","k"," ","k","d",":">> \o StrJoin(<<",">>, mods) \o <<" ","k","p",":">> \o key
    \o <<" ","k","u",":">> \o StrJoin(<<",">>, Reversed(mods))

IsKeyRequest ==
    /\ req.action = "key"
    /\ req.text.t = "str"
    /\ req.coordinate.t = "none"

CliclickRuns ==
    {i \in 1..Len(events) : events[i].e = "run" /\ StartsWith(events[i].line, <<"c","l","i","c","l","i","c","k">>)}

\* C4: an accepted key request with modifiers m1..mk, in the order
\* written, and a non-modifier key runs a single command that holds m1..mk
\* down in that order, presses the key, and releases mk..m1.
C4_ModifiersReleasedInReverse ==
    (IsKeyRequest /\ Accepted /\ Len(events) >= 1)
        => LET lowered == LoweredTokensOf(req.text.s)
               mods == SelectSeq(lowered, IsModifierToken)
               keys == SelectSeq(lowered, IsKeyToken)
           IN  (Len(mods) >= 1 /\ Len(keys) >= 1)
                 => /\ events[1].e = "run"
                    /\ events[1].line =
                         HoldPressRelease(mods, KeyMappingGet(keys[1]))
                    /\ CliclickRuns = {1}

C4_Witness ==
    /\ pc = "done"
    /\ result.status = "return"
    /\ IsKeyRequest
    /\ req.text.s = <<"c","t","r","l","+","S","h","i","f","t","+","E","s","c","a","p","e">>
    /\ events[1].line = <<"c","l","i","c","l","i","c","k"," ","k","d",":","c","t","r","l",",","s","h","i","f","t"," ","k","p",":","e","s","c","a","p","e"," ","k","u",":","s","h","i","f","t",",","c","t","r","l">>

\* C5: a key request whose text has two or more tokens that are not
\* modifiers, empty tokens included, fails with InvalidArgument ("only one
\* non-modifier key allowed") and runs no command; a text with at most one
\* such token is accepted.
C5_SecondNonModifierRejected ==
    (IsKeyRequest /\ pc # "idle")
        => LET others == SelectSeq(LoweredTokensOf(req.text.s), IsNonModifierToken)
           IN  IF Len(others) >= 2
               THEN /\ RejectedWith("InvalidArgument")
                    /\ result.msg = "Only one non-modifier key allowed"
               ELSE Accepted

\* the name the symbolic-name table gives a token, or its lowercased form
TableName(token) ==
    IF \E i \in 1..Len(KeyMappingNames) : KeyMappingNames[i] = token
    THEN KeyMappingValues[CHOOSE i \in 1..Len(KeyMappingNames) :
                              KeyMappingNames[i] = token]
    ELSE StrLower(token)

IsWrittenKeyToken(t) == StrLower(t) \notin Modifiers /\ t # <<>>

\* C6: in the command of an accepted key request, a non-modifier token
\* that is a name of the symbolic-name table is pressed under the table's
\* backend name, and any other token under its lowercased form.
C6_TableNamesTranslated ==
    (IsKeyRequest /\ Accepted /\ Len(events) >= 1)
        => LET written == SelectSeq(TokensOf(req.text.s), IsWrittenKeyToken)
               mods == SelectSeq(LoweredTokensOf(req.text.s), IsModifierToken)
           IN  Len(written) = 1
                 => events[1].line =
                      IF Len(mods) = 0
                      THEN <<"c","l","i","c","l","i","c","k"," ","k","p",":">> \o TableName(written[1])
                      ELSE HoldPressRelease(mods, TableName(written[1]))

---------------------------------------------------------------------------
(* Properties of the order of events, checked under Spec.                  *)

IsTypeRequest ==
    /\ req.action = "type"
    /\ req.text.t = "str"
    /\ req.coordinate.t = "none"

Min(a, b) == IF a < b THEN a ELSE b

\* ceil(n / TYPING_GROUP_SIZE)
NumChunks(n) == (n + TYPING_GROUP_SIZE - 1) \div TYPING_GROUP_SIZE

\* characters (i-1)*50+1 .. i*50 of the text
ExpectedChunk(text, i) ==
    SubSeq(text, (i - 1) * TYPING_GROUP_SIZE + 1,
           Min(i * TYPING_GROUP_SIZE, Len(text)))

\* What the shell makes of a word of the command line: quotes group
\* characters and are removed.  One character read in a quoting mode:
ShStep(mode, c) ==
    IF mode = "plain" /\ c = "'" THEN [mode |-> "single", out |-> <<>>, bare |-> FALSE]
    ELSE IF mode = "plain" /\ c = "\"" THEN [mode |-> "double", out |-> <<>>, bare |-> FALSE]
    ELSE IF mode = "single" /\ c = "'" THEN [mode |-> "plain", out |-> <<>>, bare |-> FALSE]
    ELSE IF mode = "double" /\ c = "\"" THEN [mode |-> "plain", out |-> <<>>, bare |-> FALSE]
    ELSE [mode |-> mode, out |-> <<c>>, bare |-> mode = "plain" /\ c \in Whitespace]

\* two consecutive readings put together
ShJoin(left, right) ==
    [mode |-> right.mode, out |-> left.out \o right.out,
     bare |-> left.bare \/ right.bare]

\* characters lo..hi of w read from the given mode: the mode reached, the
\* characters kept, and whether whitespace stood outside quotes.  The two
\* halves are read one after the other, each exactly once.
RECURSIVE ShScan(_, _, _, _)
ShScan(w, lo, hi, mode) ==
    IF lo > hi THEN [mode |-> mode, out |-> <<>>, bare |-> FALSE]
    ELSE IF lo = hi THEN ShStep(mode, w[lo])
    ELSE CHOOSE whole \in
            UNION {{ShJoin(left, right) :
                        right \in {ShScan(w, mid + 1, hi, left.mode)}} :
                    <<mid, left>> \in
                        {<<m, ShScan(w, lo, m, mode)>> : m \in {(lo + hi) \div 2}}} :
            TRUE

ShUnquote(w) == ShScan(w, 1, Len(w), "plain").out

\* w reaches the program as exactly one argument: it is not empty, its
\* quotes are closed and no whitespace stands outside them
ShIsOneWord(w) ==
    LET scan == ShScan(w, 1, Len(w), "plain")
    IN  Len(w) > 0 /\ scan.mode = "plain" /\ ~scan.bare

TypePrefix == <<"c","l","i","c","l","i","c","k"," ","w",":","1","2"," ","t",":">>

RECURSIVE EventOutputs(_)
EventOutputs(k) ==
    IF k = 0 THEN <<>> ELSE EventOutputs(k - 1) \o events[k].out

RECURSIVE EventErrors(_)
EventErrors(k) ==
    IF k = 0 THEN <<>> ELSE EventErrors(k - 1) \o events[k].err

RECURSIVE TypedBack(_)
TypedBack(k) ==
    IF k = 0 THEN <<>>
    ELSE TypedBack(k - 1) \o ShUnquote(Rest(events[k].line, TypePrefix))

\* C7: an accepted type request with a text of n characters sends the text
\* as ceil(n/50) commands, each carrying the next chunk of at most 50
\* characters (together they give the text back); no screenshot is taken
\* between chunks and exactly one after the last; the result's output and
\* error are the chunk commands' outputs and errors concatenated in order.
C7_TypedInChunksThenOneScreenshot ==
    (IsTypeRequest /\ pc # "idle")
        => LET text == req.text.s
               k == NumChunks(Len(text))
           IN  /\ Len(events) <= k + 2
               /\ \A i \in 1..Len(events) :
                    /\ events[i].e = "run"
                    /\ i <= k =>
                        /\ StartsWith(events[i].line, TypePrefix)
                        /\ ShIsOneWord(Rest(events[i].line, TypePrefix))
                        /\ ShUnquote(Rest(events[i].line, TypePrefix))
                             = ExpectedChunk(text, i)
                        /\ Len(ExpectedChunk(text, i)) \in 1..TYPING_GROUP_SIZE
                    /\ i = k + 1 => events[i].line = ScreenshotCommand(1)
                    /\ i = k + 2 => events[i].line = ResizeCommand(1)
               /\ shots = (IF Len(events) >= k /\ pc # "shell" THEN 1 ELSE 0)
               /\ pc = "done" =>
                    /\ Len(events) = k + 2
                    /\ TypedBack(k) = text
               /\ (pc = "done" /\ result.status = "return") =>
                    /\ result.output = EventOutputs(k)
                    /\ result.error = EventErrors(k)
                    /\ result.image = 1

C7_Witness ==
    /\ pc = "done"
    /\ IsTypeRequest
    /\ Len(req.text.s) = 2 * TYPING_GROUP_SIZE + 1
    /\ req.text.s[7] = "'"
    /\ result.status = "return"
    /\ result.output = <<"x","y","x">>
    /\ result.error = <<"e">>
    /\ result.image = 1

IsCursorRequest ==
    /\ req.action = "cursor_position"
    /\ req.text.t = "none"
    /\ req.coordinate.t = "none"

\* the report reads "Label: x, y" with integers x and y
HasPointShape(report) ==
    LET halves == StrSplit(report, <<":"," ">>)
    IN  /\ Len(halves) = 2
        /\ LET coords == StrSplit(halves[2], <<","," ">>)
           IN  /\ Len(coords) = 2
               /\ IntParses(coords[1])
               /\ IntParses(coords[2])

ReportX(report) == IntValue(StrSplit(StrSplit(report, <<":"," ">>)[2], <<","," ">>)[1])

ReportY(report) == IntValue(StrSplit(StrSplit(report, <<":"," ">>)[2], <<","," ">>)[2])

\* the report has no ": ", or one of its two components is not a number
IsMalformedReport(report) ==
    LET halves == StrSplit(report, <<":"," ">>)
    IN  \/ Len(halves) < 2
        \/ /\ Len(halves) = 2
           /\ LET coords == StrSplit(halves[2], <<","," ">>)
              IN  /\ Len(coords) = 2
                  /\ ~(IntParses(coords[1]) /\ IntParses(coords[2]))

\* C8: a cursor_position request has one of two outcomes: for a report
\* "Label: x, y" with integers x and y the output "X=<sx>,Y=<sy>", (sx, sy)
\* the report scaled to agent space, and no screenshot; for a report with no
\* ": " or a non-numeric component a ParseError.  The raw report is never
\* the output.
C8_CursorScaledOrParseError ==
    (IsCursorRequest /\ pc = "done")
        => LET report == events[1].out
           IN  /\ HasPointShape(report) =>
                    /\ result.status = "return"
                    /\ \E s \in ScaleCoordinates("computer", ReportX(report),
                                                 ReportY(report)) :
                        /\ s.ok
                        /\ result.output = <<"X","=">> \o IntToStr(s.x) \o <<",","Y","=">>
                                           \o IntToStr(s.y)
                    /\ result.image = 0
                    /\ shots = 0
               /\ IsMalformedReport(report) =>
                    /\ result.status = "raise"
                    /\ result.kind = "ParseError"
               /\ \/ result.status = "return" /\ StartsWith(result.output, <<"X","=">>)
                  \/ result.status = "raise" /\ result.kind = "ParseError"
               /\ result.status = "return" => result.output # report

IsSettledAction ==
    /\ req.action \in {"mouse_move", "left_click_drag", "key", "left_click",
                       "right_click", "double_click"}
    /\ Accepted

\* the number of frames of the given coroutine on the stack
Frames(name) == Cardinality({i \in 1..Len(stack) : stack[i] = name})

\* C10: an accepted mouse_move, left_click_drag, key, left_click,
\* right_click or double_click runs exactly one automation command, then
\* waits the settle delay, then captures exactly one screenshot (the capture
\* command, then the resize command) whose image is attached to the result.
\* No command of a screenshot capture triggers a further screenshot, so
\* shell and screenshot nest one level deep, and every step short of the
\* end waits only for a subprocess or the delay to complete.
C10_CommandDelayScreenshot ==
    IsSettledAction
        => /\ Len(events) <= 4
           /\ \A i \in 1..Len(events) :
                /\ i = 1 => /\ events[i].e = "run"
                            /\ StartsWith(events[i].line, <<"c","l","i","c","l","i","c","k"," ">>)
                /\ i = 2 => events[i] = SleepEvent
                /\ i = 3 => /\ events[i].e = "run"
                            /\ events[i].line = ScreenshotCommand(1)
                /\ i = 4 => /\ events[i].e = "run"
                            /\ events[i].line = ResizeCommand(1)
           /\ pc = (CASE Len(events) = 0 -> "shell"
                      [] Len(events) = 1 -> "sleep"
                      [] Len(events) = 2 -> "capture"
                      [] Len(events) = 3 -> "resize"
                      [] OTHER -> "done")
           /\ shots = (IF Len(events) >= 2 THEN 1 ELSE 0)
           /\ Frames("screenshot") <= 1
           /\ Frames("shell") <= 2
           /\ (Frames("screenshot") = 1 => ~cmd.take_screenshot)
           /\ pc # "done" => ENABLED (ShellRun \/ Sleep \/ Capture \/ Resize)
           /\ (pc = "done" /\ result.status = "return") => result.image = 1
           /\ (pc = "done" /\ result.status = "raise") =>
                result.kind = "CaptureError"

C10_Witness ==
    /\ pc = "done"
    /\ req.action = "left_click_drag"
    /\ result.status = "return"
    /\ result.image = 1
    /\ Len(events) = 4
    /\ events[2] = SleepEvent

===========================================================================
